---- MODULE Spec2Model ----
(***************************************************************************)
(* The IRVE Data Processing page (sections/data_processing.py: render) and *)
(* the cleaning functions it calls (utils/cleaning.py, utils/geo.py).      *)
(*                                                                         *)
(* A table (pandas DataFrame) is a record                                  *)
(*     [columns : sequence of column names, in order,                      *)
(*      index   : sequence of row labels,                                  *)
(*      rows    : sequence of rows, each a function column -> value].      *)
(* A cell of a raw column is a value record  [k, n, s]:                    *)
(*     k = "na"  : NaN / None (absent)                                     *)
(*     k = "num" : the number n                                            *)
(*     k = "str" : the text s, a sequence of one-character strings         *)
(* Derived boolean and label columns hold TLA+ booleans and strings.       *)
(* Numbers are whole kW and whole degrees; number texts are integer texts. *)
(***************************************************************************)
EXTENDS Integers, Sequences, FiniteSets, TLC

VARIABLES
    pc,           \* position of render(): the next section to run
    df_raw,       \* the raw table read at line 19, mutated in place after
    df_clean,     \* the cleaned table (line 63 onwards)
    df_entering,  \* record of df_clean as it enters the outlier removal
    warned,       \* columns for which st.warning was emitted at line 44
    mask_power,   \* label -> (puissance_kw > 400), the series summed at line 140
    nb_outliers,  \* line 140
    mask_geo,     \* label -> in-box test, line 155
    nb_geo_out,   \* line 159
    error,        \* the exception that ended the run, "" when none
    csv_file,     \* content of data/processed/irve_clean.csv
    parquet_file, \* content of data/processed/irve_clean.parquet
    save_msgs,    \* messages emitted by the saving section
    writes_attempted, \* the writers called by the saving section, in order
    call,         \* a helper function called on its own: its name and arguments
    result,       \* what that call returned
    cache,        \* st.cache_data: loader -> the table it cached for the path
    loaded        \* the last call of a load_data and the first table loaded

vars == <<pc, df_raw, df_clean, df_entering, warned, mask_power, nb_outliers,
          mask_geo, nb_geo_out, error, csv_file, parquet_file, save_msgs,
          writes_attempted, call, result, cache, loaded>>

----------------------------------------------------------------------------
(* Cell values *)

NA == [k |-> "na", n |-> 0, s |-> <<>>]
Num(x) == [k |-> "num", n |-> x, s |-> <<>>]
Str(t) == [k |-> "str", n |-> 0, s |-> t]

\* pd.isna
IsNA(v) == v.k = "na"

----------------------------------------------------------------------------
(* Text *)

Digits == {"0", "1", "2", "3", "4", "5", "6", "7", "8", "9"}

LowerLetters ==
    {"a", "b", "c", "d", "e", "f", "g", "h", "i", "j", "k", "l", "m", "n", "o",
     "p", "q", "r", "s", "t", "u", "v", "w", "x", "y", "z", "e_acute", "e_grave"}

UpperLetters ==
    {"A", "B", "C", "D", "E", "F", "G", "H", "I", "J", "K", "L", "M", "N", "O",
     "P", "Q", "R", "S", "T", "U", "V", "W", "X", "Y", "Z"}

UpperToLower ==
    [c \in UpperLetters |->
        CASE c = "A" -> "a" [] c = "B" -> "b" [] c = "C" -> "c" [] c = "D" -> "d"
          [] c = "E" -> "e" [] c = "F" -> "f" [] c = "G" -> "g" [] c = "H" -> "h"
          [] c = "I" -> "i" [] c = "J" -> "j" [] c = "K" -> "k" [] c = "L" -> "l"
          [] c = "M" -> "m" [] c = "N" -> "n" [] c = "O" -> "o" [] c = "P" -> "p"
          [] c = "Q" -> "q" [] c = "R" -> "r" [] c = "S" -> "s" [] c = "T" -> "t"
          [] c = "U" -> "u" [] c = "V" -> "v" [] c = "W" -> "w" [] c = "X" -> "x"
          [] c = "Y" -> "y" [] c = "Z" -> "z"]

\* str.lower on one character
LowerChar(c) == IF c \in UpperLetters THEN UpperToLower[c] ELSE c

\* str.lower
Lower(t) == [i \in 1..Len(t) |-> LowerChar(t[i])]

\* \d and \w of the re module
IsDigit(c) == c \in Digits
IsWordChar(c) == c \in Digits \cup LowerLetters \cup UpperLetters \cup {"_"}

\* pat occurs in t at position i
OccursAt(t, pat, i) ==
    /\ i + Len(pat) - 1 <= Len(t)
    /\ \A j \in 1..Len(pat) : t[i + j - 1] = pat[j]

\* a literal pattern occurs somewhere in t (str.contains / re.search of a literal)
ContainsText(t, pat) == \E i \in 1..Len(t) : OccursAt(t, pat, i)

\* an alternation of literals p1|p2|... occurs in t
ContainsAny(t, pats) == \E p \in pats : ContainsText(t, p)

\* astype(str) of a text cell; a missing cell becomes the text naText
AsText(v, naText) == IF v.k = "str" THEN v.s ELSE naText

TextNan == <<"n", "a", "n">>
TextNone == <<"N", "o", "n", "e">>

----------------------------------------------------------------------------
(* pd.to_numeric(errors="coerce") *)

RECURSIVE DigitsValue(_)
DigitsValue(t) ==
    IF Len(t) = 0 THEN 0
    ELSE 10 * DigitsValue(SubSeq(t, 1, Len(t) - 1))
         + (CHOOSE d \in 0..9 : ToString(d) = t[Len(t)])

AllDigits(t) == Len(t) >= 1 /\ \A i \in 1..Len(t) : IsDigit(t[i])

IsNumberText(t) ==
    \/ AllDigits(t)
    \/ Len(t) >= 2 /\ t[1] = "-" /\ AllDigits(Tail(t))

NumberOfText(t) ==
    IF t[1] = "-" THEN 0 - DigitsValue(Tail(t)) ELSE DigitsValue(t)

to_numeric(v) ==
    CASE v.k = "num" -> v
      [] v.k = "str" -> IF IsNumberText(v.s) THEN Num(NumberOfText(v.s)) ELSE NA
      [] OTHER -> NA

\* Series.clip(lower=lo): NaN stays NaN
clip_lower(v, lo) == IF v.k = "num" /\ v.n < lo THEN Num(lo) ELSE v

\* Series.fillna(other), one cell
fillna(v, other) == IF IsNA(v) THEN other ELSE v

----------------------------------------------------------------------------
(* Tables *)

RECURSIVE SeqRange(_)
SeqRange(q) == IF Len(q) = 0 THEN {} ELSE {Head(q)} \cup SeqRange(Tail(q))

\* c in df.columns
HasCol(df, c) == \E i \in 1..Len(df.columns) : df.columns[i] = c

NRows(df) == Len(df.rows)

\* [x for x in q if x in S], order kept
RECURSIVE KeepIn(_, _)
KeepIn(q, S) ==
    IF Len(q) = 0 THEN <<>>
    ELSE (IF Head(q) \in S THEN <<Head(q)>> ELSE <<>>) \o KeepIn(Tail(q), S)

\* df[names]: the listed columns, in the listed order
SelectCols(df, names) ==
    [df EXCEPT !.columns = names,
               !.rows = [i \in 1..Len(df.rows) |->
                            [c \in SeqRange(names) |-> df.rows[i][c]]]]

\* df[c] = series: replaces the column where it stands, or appends it
SetCol(df, c, series) ==
    [df EXCEPT !.columns = IF HasCol(df, c) THEN df.columns
                           ELSE Append(df.columns, c),
               !.rows = [i \in 1..Len(df.rows) |->
                            (c :> series[i]) @@ df.rows[i]]]

\* df.drop(columns=[c])
DropCol(df, c) ==
    SelectCols(df, KeepIn(df.columns, SeqRange(df.columns) \ {c}))

\* the positions 1..n that keep[_] retains, ascending
RECURSIVE KeptPositions(_, _)
KeptPositions(n, keep) ==
    IF n = 0 THEN <<>>
    ELSE KeptPositions(n - 1, keep) \o (IF keep[n] THEN <<n>> ELSE <<>>)

\* df[mask]: boolean indexing, labels kept
FilterRows(df, keep) ==
    LET pos == KeptPositions(Len(df.rows), keep) IN
    [df EXCEPT !.index = [j \in 1..Len(pos) |-> df.index[pos[j]]],
               !.rows = [j \in 1..Len(pos) |-> df.rows[pos[j]]]]

\* dtype read_csv infers for a column: a column without any text is float64
\* (all-empty included), a column of an empty file is object
IsObjectDtype(df, c) ==
    \/ NRows(df) = 0
    \/ \E i \in 1..Len(df.rows) : df.rows[i][c].k = "str"

----------------------------------------------------------------------------
(* utils/geo.py and utils/cleaning.py: field extractors *)

\* the pattern without its closing word boundary
PostalMatchAt_NoEnd(t, i) ==
    /\ i + 4 <= Len(t)
    /\ \A j \in i..(i + 4) : IsDigit(t[j])
    /\ (i = 1 \/ ~IsWordChar(t[i - 1]))

\* re.search(r"\b(\d{5})\b", t) matches at position i
PostalMatchAt(t, i) ==
    /\ i + 4 <= Len(t)
    /\ \A j \in i..(i + 4) : IsDigit(t[j])
    /\ (i = 1 \/ ~IsWordChar(t[i - 1]))
    /\ (i + 5 > Len(t) \/ ~IsWordChar(t[i + 5]))

extract_code_postal(adresse) ==
    IF IsNA(adresse) THEN NA
    ELSE LET t == AsText(adresse, TextNan)
             hits == {i \in 1..Len(t) : PostalMatchAt(t, i)}
         IN IF hits = {} THEN NA
            ELSE LET first == CHOOSE i \in hits : \A j \in hits : i <= j
                 IN Str(SubSeq(t, first, first + 4))

\* the first digit only
DepartementOf_OneDigit(cp) ==
    LET t == AsText(cp, TextNone) IN
    IF Len(t) >= 1 /\ IsDigit(t[1]) THEN Str(SubSeq(t, 1, 1)) ELSE NA

\* astype(str).str.extract(r"^(\d{2})") on one cell
DepartementOf(cp) ==
    LET t == AsText(cp, TextNone) IN
    IF Len(t) >= 2 /\ IsDigit(t[1]) /\ IsDigit(t[2]) THEN Str(SubSeq(t, 1, 2))
    ELSE NA

\* a derivation that knows Corsica: 200xx and 201xx are 2A, 202xx to 206xx 2B
DepartementOf_Corse(cp) ==
    LET t == AsText(cp, TextNone) IN
    IF Len(t) >= 3 /\ t[1] = "2" /\ t[2] = "0"
    THEN IF t[3] \in {"0", "1"} THEN Str(<<"2", "A">>) ELSE Str(<<"2", "B">>)
    ELSE IF Len(t) >= 2 /\ IsDigit(t[1]) /\ IsDigit(t[2]) THEN Str(SubSeq(t, 1, 2))
    ELSE NA

add_departement_Corse(df, cp_col) ==
    IF HasCol(df, cp_col)
    THEN SetCol(df, "departement",
                [i \in 1..NRows(df) |-> DepartementOf_Corse(df.rows[i][cp_col])])
    ELSE SetCol(df, "departement", [i \in 1..NRows(df) |-> NA])

add_departement_from_cp_simple(df, cp_col) ==
    IF HasCol(df, cp_col)
    THEN SetCol(df, "departement",
                [i \in 1..NRows(df) |-> DepartementOf(df.rows[i][cp_col])])
    ELSE SetCol(df, "departement", [i \in 1..NRows(df) |-> NA])

----------------------------------------------------------------------------
(* sections/deep_dives.py: norm_code *)

\* str(n) of a whole number n >= 0
RECURSIVE NatText(_)
NatText(n) ==
    IF n < 10 THEN <<ToString(n)>>
    ELSE NatText(n \div 10) \o <<ToString(n % 10)>>

\* str(x)
StrOf(v) ==
    CASE v.k = "str" -> v.s
      [] v.k = "num" -> NatText(v.n)
      [] OTHER -> TextNan

\* str.strip
RECURSIVE Strip(_)
Strip(t) ==
    IF Len(t) = 0 THEN t
    ELSE IF Head(t) = " " THEN Strip(Tail(t))
    ELSE IF t[Len(t)] = " " THEN Strip(SubSeq(t, 1, Len(t) - 1))
    ELSE t

\* str.upper
UpperChar(c) ==
    IF \E u \in UpperLetters : UpperToLower[u] = c
    THEN CHOOSE u \in UpperLetters : UpperToLower[u] = c
    ELSE c

Upper(t) == [i \in 1..Len(t) |-> UpperChar(t[i])]

\* str.zfill
RECURSIVE zfill(_, _)
zfill(t, width) == IF Len(t) >= width THEN t ELSE zfill(<<"0">> \o t, width)

\* lines 124-128
norm_code(x) ==
    LET s == Upper(Strip(StrOf(x))) IN
    IF s \in {<<"2", "A">>, <<"2", "B">>} THEN Str(s)
    ELSE IF AllDigits(s) /\ Len(s) <= 2 THEN Str(zfill(s, 2))
    ELSE Str(s)

----------------------------------------------------------------------------
(* utils/io.py: _first_col, on df.columns with the names as texts *)

\* the exact step done over the columns in their order
ExactMatch_ColumnOrder(columns, candidates) ==
    LET hits == {i \in DOMAIN columns :
                    \E k \in DOMAIN candidates : Lower(columns[i]) = candidates[k]}
    IN IF hits = {} THEN NA
       ELSE Str(columns[CHOOSE i \in hits : \A j \in hits : i <= j])

\* lines 20-23: low maps a lower-cased name to the last column of that name;
\* the first candidate that is a key of low decides
ExactMatch(columns, candidates) ==
    LET InLow(cand) == \E i \in DOMAIN columns : Lower(columns[i]) = cand
        low(cand) ==
            LET same == {i \in DOMAIN columns : Lower(columns[i]) = cand}
            IN columns[CHOOSE i \in same : \A j \in same : j <= i]
        hits == {k \in DOMAIN candidates : InLow(candidates[k])}
    IN IF hits = {} THEN NA
       ELSE Str(low(candidates[CHOOSE k \in hits : \A j \in hits : k <= j]))

\* the loose step done over the candidates in their order
LooseMatch_CandidateOrder(columns, candidates) ==
    LET Has(k) == {i \in DOMAIN columns : ContainsText(Lower(columns[i]), candidates[k])}
        hits == {k \in DOMAIN candidates : Has(k) # {}}
    IN IF hits = {} THEN NA
       ELSE LET best == CHOOSE k \in hits : \A j \in hits : k <= j
            IN Str(columns[CHOOSE i \in Has(best) : \A j \in Has(best) : i <= j])

\* lines 25-27: the first column whose lower-cased name contains a candidate
LooseMatch(columns, candidates) ==
    LET hits == {i \in DOMAIN columns :
                    \E k \in DOMAIN candidates :
                        ContainsText(Lower(columns[i]), candidates[k])}
    IN IF hits = {} THEN NA
       ELSE Str(columns[CHOOSE i \in hits : \A j \in hits : i <= j])

\* lines 19-28
_first_col(columns, candidates) ==
    IF ExactMatch(columns, candidates) # NA
    THEN ExactMatch(columns, candidates)
    ELSE LooseMatch(columns, candidates)

\* line 8
LAT_CANDS ==
    <<<<"y", "_", "l", "a", "t", "i", "t", "u", "d", "e">>, <<"l", "a", "t", "i", "t", "u", "d", "e">>, <<"l", "a", "t">>, <<"y", "l", "a", "t">>>>

----------------------------------------------------------------------------
(* utils/cleaning.py: clean_irve *)

\* step 1: the columns clean_irve keeps, in this order
cols ==
    <<"id_station", "id_pdc", "nom_station",
      "adresse_station", "code_postal", "nom_commune",
      "code_departement", "nom_departement", "code_region", "nom_region",
      "latitude", "longitude",
      "consolidated_longitude", "consolidated_latitude", "consolidated_lagitude",
      "accessibilite", "conditions_acces", "horaires", "reservation",
      "modalites_paiement",
      "etat_pdc", "statut_pdc", "date_maj", "date_mise_en_service",
      "puissance_nominale", "type_prise", "connecteur", "format_recharge",
      "type_charge", "nb_points_charge",
      "operateur", "nom_operateur", "enseigne", "reseau", "proprietaire",
      "source", "last_update",
      "code_insee_commune", "departement">>

\* a step 1 that keeps every column of the table
SelectPresent_All(df) == df

\* df = df[present]
SelectPresent(df) == SelectCols(df, KeepIn(cols, SeqRange(df.columns)))

\* step 2, one axis: when the fallback column exists, the primary column is
\* parsed (or created empty) and its gaps are filled from the parsed fallback;
\* when the fallback column does not exist nothing is touched
FillFrom(df, primary, fallback) ==
    IF HasCol(df, fallback)
    THEN LET parsed == [i \in 1..NRows(df) |->
                           IF HasCol(df, primary)
                           THEN to_numeric(df.rows[i][primary]) ELSE NA]
         IN SetCol(df, primary,
                   [i \in 1..NRows(df) |->
                       fillna(parsed[i], to_numeric(df.rows[i][fallback]))])
    ELSE df

ConsolidateCoords(df) ==
    FillFrom(FillFrom(FillFrom(df, "longitude", "consolidated_longitude"),
                      "latitude", "consolidated_latitude"),
             "latitude", "consolidated_lagitude")

\* step 3: power tiers
BinAcSlow == 7
BinAcStandard == 22
BinDcMedium == 49
BinDcFast == 149

\* mutant: strict comparisons at the tier bounds
bin_Strict(x) ==
    IF IsNA(x) THEN "inconnu"
    ELSE IF x.n < BinAcSlow THEN "AC_lente"
    ELSE IF x.n < BinAcStandard THEN "AC_standard"
    ELSE IF x.n < BinDcMedium THEN "DC_moyenne"
    ELSE IF x.n < BinDcFast THEN "DC_rapide"
    ELSE "DC_ultra"

\* mutant: the DC_rapide tier reaches 150 kW
bin_Upto150(x) ==
    IF IsNA(x) THEN "inconnu"
    ELSE IF x.n <= BinAcSlow THEN "AC_lente"
    ELSE IF x.n <= BinAcStandard THEN "AC_standard"
    ELSE IF x.n <= BinDcMedium THEN "DC_moyenne"
    ELSE IF x.n <= BinDcFast + 1 THEN "DC_rapide"
    ELSE "DC_ultra"

_bin(x) ==
    IF IsNA(x) THEN "inconnu"
    ELSE IF x.n <= BinAcSlow THEN "AC_lente"
    ELSE IF x.n <= BinAcStandard THEN "AC_standard"
    ELSE IF x.n <= BinDcMedium THEN "DC_moyenne"
    ELSE IF x.n <= BinDcFast THEN "DC_rapide"
    ELSE "DC_ultra"

\* mutant: the clip is forgotten
PuissanceKw_NoClip(p) == to_numeric(p)

\* pd.to_numeric(...).clip(lower=0), one cell
PuissanceKw(p) == clip_lower(to_numeric(p), 0)

\* a step 3 that drops the raw power once puissance_kw is derived
DerivePower_DropRaw(df) ==
    IF HasCol(df, "puissance_nominale")
    THEN LET d1 == SetCol(df, "puissance_kw",
                          [i \in 1..NRows(df) |->
                              PuissanceKw(df.rows[i]["puissance_nominale"])])
             d2 == SetCol(d1, "categorie_puissance",
                          [i \in 1..NRows(d1) |-> _bin(d1.rows[i]["puissance_kw"])])
         IN DropCol(d2, "puissance_nominale")
    ELSE df

DerivePower(df) ==
    IF HasCol(df, "puissance_nominale")
    THEN LET d1 == SetCol(df, "puissance_kw",
                          [i \in 1..NRows(df) |->
                              PuissanceKw(df.rows[i]["puissance_nominale"])])
         IN SetCol(d1, "categorie_puissance",
                   [i \in 1..NRows(d1) |-> _bin(d1.rows[i]["puissance_kw"])])
    ELSE df

\* step 4: AC/DC
DcKeywords ==
    {<<"d", "c">>, <<"c", "c", "s">>, <<"c", "o", "m", "b", "o">>,
     <<"c", "h", "a", "d", "e", "m", "o">>}

DcPowerThreshold == 24

\* str.contains("DC|CCS|Combo|CHAdeMO", case=False, na=False), one cell
ConnectorIsDc(v) == v.k = "str" /\ ContainsAny(Lower(v.s), DcKeywords)

\* mutant: gt instead of ge
PowerIsDc_Strict(kw) == kw.k = "num" /\ kw.n > DcPowerThreshold

\* Series.ge(24), one cell
PowerIsDc(kw) == kw.k = "num" /\ kw.n >= DcPowerThreshold

\* mutant: the power rule is tried before the connector rule
DeriveIsDc_PowerFirst(df) ==
    IF HasCol(df, "puissance_kw")
    THEN SetCol(df, "is_dc",
                [i \in 1..NRows(df) |-> PowerIsDc(df.rows[i]["puissance_kw"])])
    ELSE IF HasCol(df, "connecteur")
    THEN SetCol(df, "is_dc",
                [i \in 1..NRows(df) |-> ConnectorIsDc(df.rows[i]["connecteur"])])
    ELSE df

DeriveIsDc(df) ==
    IF HasCol(df, "connecteur")
    THEN SetCol(df, "is_dc",
                [i \in 1..NRows(df) |-> ConnectorIsDc(df.rows[i]["connecteur"])])
    ELSE IF HasCol(df, "puissance_kw")
    THEN SetCol(df, "is_dc",
                [i \in 1..NRows(df) |-> PowerIsDc(df.rows[i]["puissance_kw"])])
    ELSE df

\* the .str accessor of line 93 raises AttributeError on a non-text column
IsDcRaises(df) == HasCol(df, "connecteur") /\ ~IsObjectDtype(df, "connecteur")

\* step 5: 24/7
Keywords247 ==
    {<<"2", "4", "/", "7">>, <<"2", "4", "h">>, <<"2", "4", " ", "h">>,
     <<"2", "4", " ", "h", "e", "u", "r", "e", "s">>}

\* the test without .str.lower()
Is247_CaseSensitive(v) == ContainsAny(AsText(v, TextNan), Keywords247)

Is247(v) == ContainsAny(Lower(AsText(v, TextNan)), Keywords247)

DeriveAccess247(df) ==
    IF HasCol(df, "horaires")
    THEN SetCol(df, "access_24_7",
                [i \in 1..NRows(df) |-> Is247(df.rows[i]["horaires"])])
    ELSE SetCol(df, "access_24_7", [i \in 1..NRows(df) |-> FALSE])

\* step 6: public / private
PublicKeywords ==
    {<<"p", "u", "b", "l", "i", "c">>,
     <<"l", "i", "b", "r", "e", " ", "a", "c", "c", "e_grave", "s">>,
     <<"l", "i", "b", "r", "e", " ", "a", "c", "c", "e", "s">>}

IsPublic(a, c) == ContainsAny(Lower(a \o <<" ">> \o c), PublicKeywords)

DerivePublic(df) ==
    SetCol(df, "est_publique",
           [i \in 1..NRows(df) |->
               IsPublic(IF HasCol(df, "accessibilite")
                        THEN AsText(df.rows[i]["accessibilite"], TextNan)
                        ELSE <<>>,
                        IF HasCol(df, "conditions_acces")
                        THEN AsText(df.rows[i]["conditions_acces"], TextNan)
                        ELSE <<>>)])

\* step 7: normalised status
InServiceKeywords ==
    {<<"e", "n", " ", "s", "e", "r", "v", "i", "c", "e">>,
     <<"d", "i", "s", "p", "o", "n", "i", "b", "l", "e">>,
     <<"o", "p", "e_acute", "r", "a", "t", "i", "o", "n">>,
     <<"o", "p", "e", "r", "a", "t", "i", "o", "n">>}

OutOfServiceKeywords ==
    {<<"h", "o", "r", "s", " ", "s", "e", "r", "v", "i", "c", "e">>,
     <<"p", "a", "n", "n", "e">>,
     <<"i", "n", "d", "i", "s", "p", "o", "n", "i", "b", "l", "e">>}

MaintenanceKeywords == {<<"m", "a", "i", "n", "t", "e", "n", "a", "n", "c", "e">>}

\* the conditions of np.select with the out-of-service test put first
StatutNormalise_OutFirst(v) ==
    LET t == Lower(AsText(v, TextNan)) IN
    IF ContainsAny(t, OutOfServiceKeywords) THEN "hors_service"
    ELSE IF ContainsAny(t, InServiceKeywords) THEN "en_service"
    ELSE IF ContainsAny(t, MaintenanceKeywords) THEN "maintenance"
    ELSE "inconnu"

\* np.select: the first condition that holds decides
StatutNormalise(v) ==
    LET t == Lower(AsText(v, TextNan)) IN
    IF ContainsAny(t, InServiceKeywords) THEN "en_service"
    ELSE IF ContainsAny(t, OutOfServiceKeywords) THEN "hors_service"
    ELSE IF ContainsAny(t, MaintenanceKeywords) THEN "maintenance"
    ELSE "inconnu"

StatutSource(df) ==
    IF HasCol(df, "etat_pdc") THEN "etat_pdc"
    ELSE IF HasCol(df, "statut_pdc") THEN "statut_pdc"
    ELSE ""

DeriveStatut(df) ==
    IF StatutSource(df) # ""
    THEN SetCol(df, "statut_normalise",
                [i \in 1..NRows(df) |->
                    StatutNormalise(df.rows[i][StatutSource(df)])])
    ELSE df

\* step 8
DropInsee(df) ==
    IF HasCol(df, "code_insee_commune") THEN DropCol(df, "code_insee_commune")
    ELSE df

\* step 9
frontList ==
    <<"id_station", "id_pdc", "nom_station",
      "adresse_station", "code_postal", "nom_commune",
      "code_departement", "nom_departement", "code_region", "nom_region",
      "latitude", "longitude",
      "puissance_kw", "categorie_puissance", "is_dc",
      "access_24_7", "est_publique", "statut_normalise",
      "operateur", "enseigne", "reseau",
      "date_maj", "date_mise_en_service">>

Reorder(df) ==
    LET front == KeepIn(frontList, SeqRange(df.columns))
        rest == KeepIn(df.columns, SeqRange(df.columns) \ SeqRange(front))
    IN SelectCols(df, front \o rest)

\* lines 145-148
DropConsolidated(df) ==
    LET d1 == IF HasCol(df, "consolidated_latitude")
              THEN DropCol(df, "consolidated_latitude") ELSE df
    IN IF HasCol(d1, "consolidated_longitude")
       THEN DropCol(d1, "consolidated_longitude") ELSE d1

\* the table clean_irve returns when it does not raise
clean_irve(df) ==
    DropConsolidated(Reorder(DropInsee(DeriveStatut(DerivePublic(
        DeriveAccess247(DeriveIsDc(DerivePower(ConsolidateCoords(
            SelectPresent(df))))))))))

\* clean_irve raises (line 93)
clean_irve_raises(df) == IsDcRaises(SelectPresent(df))

----------------------------------------------------------------------------
(* sections/data_processing.py: render, section by section *)

NoTable == [columns |-> <<>>, index |-> <<>>, rows |-> <<>>]
NoCall == [fn |-> "", text |-> NA, df |-> NoTable, columns |-> <<>>, candidates |-> <<>>]
NoResult ==
    [value |-> NA, df |-> NoTable, arg |-> NoTable, raised |-> "",
     again |-> NoTable, second |-> NoTable]
NoFile == [kind |-> "none", columns |-> <<>>, rows |-> <<>>]
PartialFile == [kind |-> "partial", columns |-> <<>>, rows |-> <<>>]

\* the two functions decorated with st.cache_data, each with its own cache
Loaders == {"overview.load_data", "deep_dives.load_data"}
NoCache == [l \in Loaders |-> NoFile]
NoLoad == [by |-> "", table |-> NoFile, read |-> FALSE, raised |-> "", first |-> NoFile]

\* a writer called without index=False: the labels become a first column
Written_WithIndex(df) ==
    [kind |-> "table",
     columns |-> <<"Unnamed: 0">> \o df.columns,
     rows |-> [i \in DOMAIN df.rows |-> ("Unnamed: 0" :> Num(df.index[i])) @@ df.rows[i]]]

\* to_csv / to_parquet with index=False: columns and rows, no labels
Written(df) == [kind |-> "table", columns |-> df.columns, rows |-> df.rows]

date_cols == <<"date_maj", "date_mise_en_service">>

\* pd.to_datetime(errors="coerce"), one cell: the modelled date cells are
\* empty or hold a text that is no date, both become NaT
to_datetime(v) == NA

Raise(stage, exc) ==
    /\ pc' = "crashed"
    /\ error' = <<stage, exc>>

\* lines 36-47
ConvertDates ==
    /\ pc = "dates"
    /\ LET conv(df, c) ==
               IF HasCol(df, c)
               THEN SetCol(df, c, [i \in 1..NRows(df) |-> to_datetime(df.rows[i][c])])
               ELSE df
       IN df_raw' = conv(conv(df_raw, date_cols[1]), date_cols[2])
    /\ warned' = {c \in SeqRange(date_cols) : ~HasCol(df_raw, c)}
    /\ IF \E c \in SeqRange(date_cols) : ~HasCol(df_raw, c)
       THEN Raise("dates", "KeyError")               \* df_raw[date_cols], line 47
       ELSE pc' = "postal" /\ UNCHANGED error
    /\ UNCHANGED <<df_clean, df_entering, mask_power, nb_outliers, mask_geo,
                   nb_geo_out, csv_file, parquet_file, save_msgs,
                   writes_attempted, call, result, cache, loaded>>

\* lines 55-56
ExtractPostal ==
    /\ pc = "postal"
    /\ IF ~HasCol(df_raw, "adresse_station")
       THEN Raise("postal", "KeyError") /\ UNCHANGED df_raw
       ELSE /\ df_raw' = SetCol(df_raw, "code_postal",
                                [i \in 1..NRows(df_raw) |->
                                    extract_code_postal(df_raw.rows[i]["adresse_station"])])
            /\ pc' = "dept"
            /\ UNCHANGED error
    /\ UNCHANGED <<df_clean, df_entering, warned, mask_power, nb_outliers, mask_geo,
                   nb_geo_out, csv_file, parquet_file, save_msgs,
                   writes_attempted, call, result, cache, loaded>>

\* lines 59-60
AddDepartement ==
    /\ pc = "dept"
    /\ df_raw' = add_departement_from_cp_simple(df_raw, "code_postal")
    /\ pc' = "clean"
    /\ UNCHANGED <<df_clean, df_entering, warned, mask_power, nb_outliers, mask_geo,
                   nb_geo_out, error, csv_file, parquet_file, save_msgs,
                   writes_attempted, call, result, cache, loaded>>

\* lines 63-94
Clean ==
    /\ pc = "clean"
    /\ IF clean_irve_raises(df_raw)
       THEN Raise("clean", "AttributeError") /\ UNCHANGED df_clean
       ELSE /\ df_clean' = clean_irve(df_raw)
            /\ pc' = "dropna"
            /\ UNCHANGED error
    /\ UNCHANGED <<df_raw, df_entering, warned, mask_power, nb_outliers, mask_geo,
                   nb_geo_out, csv_file, parquet_file, save_msgs,
                   writes_attempted, call, result, cache, loaded>>

\* df.dropna(subset=["code_postal"])
DropNaPostal(df) ==
    FilterRows(df, [i \in 1..NRows(df) |-> ~IsNA(df.rows[i]["code_postal"])])

\* lines 96-113; nb_suppr / nb_avant divides by zero on an empty table
DropNoPostal ==
    /\ pc = "dropna"
    /\ df_clean' = DropNaPostal(df_clean)
    /\ IF NRows(df_clean) = 0
       THEN Raise("dropna", "ZeroDivisionError") /\ UNCHANGED df_entering
       ELSE /\ pc' = "power"
            /\ df_entering' = df_clean'
            /\ UNCHANGED error
    /\ UNCHANGED <<df_raw, warned, mask_power, nb_outliers, mask_geo,
                   nb_geo_out, csv_file, parquet_file, save_msgs,
                   writes_attempted, call, result, cache, loaded>>

\* the row of df that carries label l
RowOf(df, l) == df.rows[CHOOSE i \in 1..Len(df.index) : df.index[i] = l]

Labels(df) == SeqRange(df.index)

seuil_puissance == 400

\* df_clean["puissance_kw"] > 400, one cell
AboveSeuil(kw) == kw.k = "num" /\ kw.n > seuil_puissance

\* mutant: the power rule keeps every row
WithinSeuil_KeepAll(kw) == TRUE

\* df_clean["puissance_kw"] <= 400, one cell
WithinSeuil(kw) == kw.k = "num" /\ kw.n <= seuil_puissance

\* lines 121-148
PowerFilter ==
    /\ pc = "power"
    /\ IF HasCol(df_clean, "puissance_kw")
       THEN /\ mask_power' = [l \in Labels(df_clean) |->
                                 AboveSeuil(RowOf(df_clean, l)["puissance_kw"])]
            /\ nb_outliers' = Cardinality({l \in Labels(df_clean) : mask_power'[l]})
            /\ df_clean' = FilterRows(df_clean,
                               [i \in 1..NRows(df_clean) |->
                                   WithinSeuil(df_clean.rows[i]["puissance_kw"])])
       ELSE UNCHANGED <<mask_power, nb_outliers, df_clean>>
    /\ pc' = "geo"
    /\ UNCHANGED <<df_raw, df_entering, warned, mask_geo, nb_geo_out, error,
                   csv_file, parquet_file, save_msgs,
                   writes_attempted, call, result, cache, loaded>>

LatMin == -22
LatMax == 52
LonMin == -63
LonMax == 55

\* mutant: the upper bound is not tested
between_NoUpper(v, lo, hi) == v.k = "num" /\ lo <= v.n

\* Series.between(lo, hi, inclusive="both"), one cell: NaN is not between
between(v, lo, hi) == v.k = "num" /\ lo <= v.n /\ v.n <= hi

\* mask_geo, one row
InBox(row) ==
    /\ between(row["latitude"], LatMin, LatMax)
    /\ between(row["longitude"], LonMin, LonMax)

\* st.map samples min(SampleCap, len(df_clean)) rows; the source's cap of 5000
\* is scaled down so that tables larger and smaller than the cap both occur
SampleCap == 1

Min(a, b) == IF a <= b THEN a ELSE b

\* rows left by df_clean[["latitude", "longitude"]].dropna()
NbCoordRows(df) ==
    Cardinality({i \in 1..NRows(df) :
                    ~IsNA(df.rows[i]["latitude"]) /\ ~IsNA(df.rows[i]["longitude"])})

\* comparing a text cell with a number raises TypeError (line 156-157)
HasTextCoord(df) ==
    \E i \in 1..NRows(df) :
        df.rows[i]["latitude"].k = "str" \/ df.rows[i]["longitude"].k = "str"

\* lines 150-203
GeoFilter ==
    /\ pc = "geo"
    /\ IF HasCol(df_clean, "latitude") /\ HasCol(df_clean, "longitude")
       THEN IF HasTextCoord(df_clean)
            THEN /\ Raise("geo", "TypeError")
                 /\ UNCHANGED <<mask_geo, nb_geo_out, df_clean>>
            ELSE /\ mask_geo' = [l \in Labels(df_clean) |-> InBox(RowOf(df_clean, l))]
                 /\ nb_geo_out' = Cardinality({l \in Labels(df_clean) : ~mask_geo'[l]})
                 /\ IF Min(SampleCap, NRows(df_clean)) > NbCoordRows(df_clean)
                    THEN Raise("geo", "ValueError") /\ UNCHANGED df_clean   \* sample, line 166
                    ELSE /\ df_clean' = FilterRows(df_clean,
                                            [i \in 1..NRows(df_clean) |->
                                                InBox(df_clean.rows[i])])
                         /\ pc' = "save"
                         /\ UNCHANGED error
       ELSE /\ pc' = "save"
            /\ UNCHANGED <<mask_geo, nb_geo_out, df_clean, error>>
    /\ UNCHANGED <<df_raw, df_entering, warned, mask_power, nb_outliers,
                   csv_file, parquet_file, save_msgs,
                   writes_attempted, call, result, cache, loaded>>

\* what each writer may do: succeed, fail leaving the file as it was, or
\* fail leaving a truncated file
WriteOutcomes == {"ok", "fails", "fails_partial"}

AfterFailure(outcome, old) == IF outcome = "fails" THEN old ELSE PartialFile

\* lines 210-230
Save ==
    /\ pc = "save"
    /\ \E mk \in {"ok", "fails"}, csv \in WriteOutcomes, pq \in WriteOutcomes :
        IF mk = "fails"
        THEN /\ csv = "ok" /\ pq = "ok"
             /\ Raise("save", "OSError")                \* os.makedirs, line 214
             /\ UNCHANGED <<csv_file, parquet_file, save_msgs, writes_attempted>>
        ELSE IF csv # "ok"
        THEN /\ pq = "ok"
             /\ csv_file' = AfterFailure(csv, csv_file)
             /\ writes_attempted' = <<"to_csv">>
             /\ save_msgs' = <<"error">>
             /\ pc' = "done"
             /\ UNCHANGED <<parquet_file, error>>
        ELSE IF pq # "ok"
        THEN /\ csv_file' = Written(df_clean)
             /\ parquet_file' = AfterFailure(pq, parquet_file)
             /\ writes_attempted' = <<"to_csv", "to_parquet">>
             /\ save_msgs' = <<"csv_saved", "error">>
             /\ pc' = "done"
             /\ UNCHANGED error
        ELSE /\ csv_file' = Written(df_clean)
             /\ parquet_file' = Written(df_clean)
             /\ writes_attempted' = <<"to_csv", "to_parquet">>
             /\ save_msgs' = <<"csv_saved", "csv_size">>
             /\ pc' = "done"
             /\ UNCHANGED error
    /\ UNCHANGED <<df_raw, df_clean, df_entering, warned, mask_power, nb_outliers,
                   mask_geo, nb_geo_out, call, result, cache, loaded>>

\* a lookup that trusts the cache only while the file still reads the same
Cached_IfFileSame(loader, reread) ==
    IF cache[loader] = reread THEN cache[loader] ELSE NoFile

\* st.cache_data: the key is the function and its argument path, and both
\* pages pass the same path, so each function has one entry
Cached(loader, reread) == cache[loader]

\* the columns whose cells are booleans or labels written by clean_irve
LabelColumns ==
    {"is_dc", "access_24_7", "est_publique", "categorie_puissance", "statut_normalise"}

\* overview.py lines 17-19, deep_dives.py lines 16-19
num_cols == {"puissance_kw", "puissance_nominale", "latitude", "longitude", "code_postal"}

\* pd.read_csv and the conversions of load_data on a written file: a column
\* without any text that is no number is read as numbers, the columns of
\* num_cols are parsed whatever they hold, booleans and labels come back as
\* they were written
load_data(file) ==
    LET AllNumbers(c) ==
            \A i \in DOMAIN file.rows :
                LET v == file.rows[i][c] IN v.k # "str" \/ IsNumberText(v.s)
        conv(c, v) ==
            IF c \in LabelColumns THEN v
            ELSE IF c \in num_cols \/ AllNumbers(c) THEN to_numeric(v)
            ELSE v
    IN [kind |-> "table",
        columns |-> file.columns,
        rows |-> [i \in DOMAIN file.rows |->
                     [c \in DOMAIN file.rows[i] |-> conv(c, file.rows[i][c])]]]

\* overview.py line 133, deep_dives.py line 93: load_data(path) on a page run,
\* between two runs of the processing page
LoadData(loader) ==
    /\ pc \in {"dates", "done", "crashed"}
    /\ \E parses \in BOOLEAN :
         LET hit == Cached(loader, load_data(csv_file)) IN
         IF hit # NoFile
         THEN /\ parses
              /\ loaded' = [loaded EXCEPT !.by = loader, !.table = hit,
                                          !.read = FALSE, !.raised = ""]
              /\ UNCHANGED cache
         ELSE IF csv_file = NoFile \/ (csv_file = PartialFile /\ ~parses)
         THEN /\ csv_file = NoFile => parses
              /\ loaded' = [loaded EXCEPT !.by = loader, !.table = NoFile,
                                          !.read = TRUE,
                                          !.raised = IF csv_file = NoFile
                                                     THEN "FileNotFoundError"
                                                     ELSE "ParserError"]
              /\ UNCHANGED cache
         ELSE /\ csv_file # PartialFile => parses
              /\ loaded' = [by |-> loader, table |-> load_data(csv_file),
                            read |-> TRUE, raised |-> "",
                            first |-> IF loaded.first = NoFile
                                      THEN load_data(csv_file) ELSE loaded.first]
              /\ cache' = [cache EXCEPT ![loader] = load_data(csv_file)]
    /\ UNCHANGED <<pc, df_raw, df_clean, df_entering, warned, mask_power, nb_outliers,
                   mask_geo, nb_geo_out, error, csv_file, parquet_file, save_msgs,
                   writes_attempted, call, result>>

LoadOverview == LoadData("overview.load_data")
LoadDeepDives == LoadData("deep_dives.load_data")

Next ==
    \/ ConvertDates
    \/ ExtractPostal
    \/ AddDepartement
    \/ Clean
    \/ DropNoPostal
    \/ PowerFilter
    \/ GeoFilter
    \/ Save

----------------------------------------------------------------------------
(* The raw files read at line 19 *)

MaxRows == 2

RawOrder ==
    <<"adresse_station", "latitude", "longitude",
      "consolidated_longitude", "consolidated_latitude", "consolidated_lagitude",
      "horaires", "accessibilite", "conditions_acces", "etat_pdc", "statut_pdc",
      "date_maj", "date_mise_en_service", "puissance_nominale", "connecteur">>

AllCols == SeqRange(RawOrder)

AddrParis ==
    Str(<<"1", "2", " ", "R", "u", "e", " ", "d", "e", " ", "P", "a", "r", "i", "s",
          ",", " ", "7", "5", "0", "1", "0", " ", "P", "a", "r", "i", "s">>)
AddrNoCode == Str(<<"R", "u", "e", " ", "d", "u", " ", "P", "o", "r", "t">>)

ConnCCS == Str(<<"C", "C", "S">>)
ConnChademo == Str(<<"C", "h", "a", "D", "e", "M", "o">>)
ConnT2 == Str(<<"T", "2">>)

TextBad == Str(<<"4", "x">>)
Text150 == Str(<<"1", "5", "0">>)
TextMinus5 == Str(<<"-", "5">>)
Text48 == Str(<<"4", "8">>)

Hours247 ==
    Str(<<"O", "u", "v", "e", "r", "t", " ", "2", "4", "h", "/", "2", "4", " ",
          "e", "t", " ", "7", "j", "/", "7">>)
HoursDay == Str(<<"9", "h", "-", "1", "8", "h">>)
StatusEnService == Str(<<"E", "n", " ", "s", "e", "r", "v", "i", "c", "e">>)
StatusEnPanne == Str(<<"E", "n", " ", "p", "a", "n", "n", "e">>)
StatusHorsService == Str(<<"H", "o", "r", "s", " ", "s", "e", "r", "v", "i", "c", "e">>)
StatusIndisponible == Str(<<"I", "n", "d", "i", "s", "p", "o", "n", "i", "b", "l", "e">>)
StatusMaintenance == Str(<<"E", "n", " ", "m", "a", "i", "n", "t", "e", "n", "a", "n", "c", "e">>)
StatusPanneMaintenance == Str(<<"P", "a", "n", "n", "e", ",", " ", "m", "a", "i", "n", "t", "e", "n", "a", "n", "c", "e">>)
StatusServiceApresPanne == Str(<<"E", "N", " ", "S", "E", "R", "V", "I", "C", "E", " ", "a", "p", "r", "e", "s", " ", "p", "a", "n", "n", "e">>)
StatusExactHorsService == Str(<<"h", "o", "r", "s", " ", "s", "e", "r", "v", "i", "c", "e">>)
StatusExactPanne == Str(<<"p", "a", "n", "n", "e">>)
StatusExactIndisponible == Str(<<"i", "n", "d", "i", "s", "p", "o", "n", "i", "b", "l", "e">>)
StatusInconnu == Str(<<"I", "n", "c", "o", "n", "n", "u">>)
Hours247Slash == Str(<<"2", "4", "/", "7">>)
Hours24HUpper == Str(<<"A", "c", "c", "e", "s", " ", "2", "4", " ", "H">>)
Hours24Heures == Str(<<"2", "4", " ", "h", "e", "u", "r", "e", "s", " ", "s", "u", "r", " ", "2", "4">>)
Hours7j == Str(<<"7", "j", "/", "7", " ", "d", "e", " ", "6", "h", " ", "a", " ", "2", "2", "h">>)
Hours24Only == Str(<<"F", "e", "r", "m", "e", " ", "l", "e", " ", "2", "4", " ", "d", "e", "c", "e", "m", "b", "r", "e">>)
AccessPublic == Str(<<"P", "u", "b", "l", "i", "c">>)

\* a plain row: a Paris address, in-box coordinates, 22 kW, a Type 2 plug
PlainRow ==
    [c \in AllCols |->
        CASE c = "adresse_station" -> AddrParis
          [] c = "latitude" -> Num(48)
          [] c = "longitude" -> Num(2)
          [] c = "puissance_nominale" -> Num(22)
          [] c = "connecteur" -> ConnT2
          [] OTHER -> NA]

BaseCols ==
    {"adresse_station", "latitude", "longitude", "date_maj", "date_mise_en_service",
     "puissance_nominale"}

\* the file with the columns colset and the given rows, labelled 0, 1, ...
MkTable(colset, fullrows) ==
    [columns |-> KeepIn(RawOrder, colset),
     index |-> [i \in 1..Len(fullrows) |-> i - 1],
     rows |-> [i \in 1..Len(fullrows) |-> [c \in colset |-> fullrows[i][c]]]]

\* read_csv gives a column one type: numbers, or texts of which at least one
\* is no number (a column of number texts only is read as numbers)
ReadCsvColumn(df, c) ==
    LET cells == {df.rows[i][c] : i \in 1..NRows(df)} IN
    \/ \A v \in cells : v.k # "str"
    \/ /\ \A v \in cells : v.k # "num"
       /\ \E v \in cells : v.k = "str" /\ ~IsNumberText(v.s)

ReadCsvTable(df) == \A c \in SeqRange(df.columns) : ReadCsvColumn(df, c)

UpTo(n, S) == UNION {[1..k -> S] : k \in 0..n}

PowerValues ==
    {NA, TextBad} \cup
    {Num(x) : x \in {-5, 0, 7, 8, 22, 23, 24, 49, 50, 149, 150, 400, 401}}

\* one charging point: every power tier, connector and address
PowerFiles ==
    {MkTable(BaseCols \cup extra, <<r>>) :
        extra \in SUBSET {"connecteur"},
        r \in {[PlainRow EXCEPT !["puissance_nominale"] = p,
                                !["connecteur"] = k,
                                !["adresse_station"] = a] :
                 p \in PowerValues,
                 k \in {NA, ConnCCS, ConnChademo, ConnT2},
                 a \in {AddrParis, AddrNoCode, NA}}}

\* files without a power column
NoPowerFiles ==
    {MkTable((BaseCols \ {"puissance_nominale"}) \cup extra, <<r>>) :
        extra \in SUBSET {"connecteur"},
        r \in {[PlainRow EXCEPT !["connecteur"] = k] : k \in {NA, ConnCCS, ConnT2}}}

\* one charging point: every combination of coordinate columns
CoordFiles ==
    {MkTable((BaseCols \ {"latitude", "longitude"}) \cup coordcols, <<r>>) :
        coordcols \in SUBSET {"latitude", "longitude", "consolidated_longitude",
                              "consolidated_latitude", "consolidated_lagitude"},
        r \in {[PlainRow EXCEPT !["latitude"] = la,
                                !["consolidated_latitude"] = cla,
                                !["consolidated_lagitude"] = clg,
                                !["longitude"] = lo,
                                !["consolidated_longitude"] = clo] :
                 la \in {NA, Num(48), TextBad},
                 cla \in {NA, Num(45), TextBad},
                 clg \in {NA, Num(47)},
                 lo \in {NA, Num(2)},
                 clo \in {NA, Num(3), TextBad}}}

\* one charging point on and around the edges of the bounding box
BoxFiles ==
    {MkTable(BaseCols, <<[PlainRow EXCEPT !["latitude"] = la, !["longitude"] = lo]>>) :
        la \in {Num(x) : x \in {-23, -22, 48, 52, 53}},
        lo \in {Num(x) : x \in {-64, -63, 2, 55, 56}}}

\* several charging points: outliers, gaps and postal codes side by side
OutlierFiles ==
    {MkTable(BaseCols, rs) :
        rs \in UpTo(MaxRows,
                    {[PlainRow EXCEPT !["puissance_nominale"] = p,
                                      !["latitude"] = la,
                                      !["adresse_station"] = a] :
                       p \in {NA, Num(50), Num(401)},
                       la \in {NA, Num(48), Num(85)},
                       a \in {AddrParis, AddrNoCode}})}

\* several charging points: connector texts and powers side by side
ConnectorFiles ==
    {MkTable(BaseCols \cup {"connecteur"}, rs) :
        rs \in UpTo(MaxRows,
                    {[PlainRow EXCEPT !["puissance_nominale"] = p,
                                      !["connecteur"] = k] :
                       p \in {NA, Num(10), Num(50)},
                       k \in {NA, ConnCCS, ConnT2}})}

\* several charging points: columns read as text
TextFiles ==
    {MkTable(BaseCols \cup {"consolidated_latitude"}, rs) :
        rs \in UpTo(MaxRows,
                    {[PlainRow EXCEPT !["puissance_nominale"] = p,
                                      !["latitude"] = la,
                                      !["consolidated_latitude"] = cla] :
                       p \in {NA, Text150, TextMinus5, TextBad},
                       la \in {NA, Text48, TextBad},
                       cla \in {NA, Num(45)}})}

\* one charging point: hours, accessibility and status texts
LabelFiles ==
    {MkTable(BaseCols \cup labelcols, <<r>>) :
        labelcols \in SUBSET {"horaires", "accessibilite", "conditions_acces",
                              "etat_pdc", "statut_pdc"},
        r \in {[PlainRow EXCEPT !["horaires"] = h,
                                !["accessibilite"] = a,
                                !["etat_pdc"] = e,
                                !["statut_pdc"] = e] :
                 h \in {NA, Hours247, HoursDay},
                 a \in {NA, AccessPublic},
                 e \in {NA, StatusEnService, StatusEnPanne}}}

StatusTexts ==
    {NA, StatusEnService, StatusEnPanne, StatusHorsService, StatusIndisponible,
     StatusMaintenance, StatusPanneMaintenance, StatusServiceApresPanne, StatusInconnu,
     StatusExactHorsService, StatusExactPanne, StatusExactIndisponible}

\* one charging point: the two status columns
StatusFiles ==
    {MkTable(BaseCols \cup statuscols, <<r>>) :
        statuscols \in SUBSET {"etat_pdc", "statut_pdc"},
        r \in {[PlainRow EXCEPT !["etat_pdc"] = e, !["statut_pdc"] = s] :
                 e \in StatusTexts, s \in StatusTexts}}

HoursTexts ==
    {NA, Hours247, HoursDay, Hours247Slash, Hours24HUpper, Hours24Heures, Hours7j,
     Hours24Only}

\* opening hours of one or two charging points, or no hours column
HoursFiles ==
    {MkTable(BaseCols \cup hourscols, <<[PlainRow EXCEPT !["horaires"] = h]>>) :
        hourscols \in SUBSET {"horaires"}, h \in HoursTexts}
    \cup {MkTable(BaseCols \cup {"horaires"},
                  <<[PlainRow EXCEPT !["horaires"] = h1],
                    [PlainRow EXCEPT !["horaires"] = h2]>>) :
             h1 \in {NA, Hours24HUpper}, h2 \in {NA, HoursDay, Hours247Slash}}

\* files that lack an address or a date column
ShortFiles ==
    {MkTable(BaseCols \ missing, <<PlainRow>>) :
        missing \in SUBSET {"adresse_station", "date_maj", "date_mise_en_service"}}

RawFiles ==
    {df \in PowerFiles \cup NoPowerFiles \cup CoordFiles \cup BoxFiles
            \cup OutlierFiles \cup ConnectorFiles \cup TextFiles \cup LabelFiles
            \cup StatusFiles \cup HoursFiles \cup ShortFiles :
        ReadCsvTable(df)}

Init ==
    /\ pc = "dates"
    /\ df_raw \in RawFiles
    /\ df_clean = NoTable
    /\ df_entering = NoTable
    /\ warned = {}
    /\ mask_power = <<>>
    /\ nb_outliers = 0
    /\ mask_geo = <<>>
    /\ nb_geo_out = 0
    /\ error = <<>>
    /\ csv_file = NoFile
    /\ parquet_file = NoFile
    /\ save_msgs = <<>>
    /\ writes_attempted = <<>>
    /\ call = NoCall
    /\ result = NoResult
    /\ cache = NoCache
    /\ loaded = NoLoad

Spec == Init /\ [][Next]_vars

----------------------------------------------------------------------------
(* A session: the processing page and the pages that load the cleaned file *)

\* the cleaned file an earlier run has left
OldFile == Written(MkTable({"adresse_station"}, <<[PlainRow EXCEPT !["adresse_station"] = AddrNoCode]>>))

SessionFiles == {df \in BoxFiles \cup ShortFiles \cup HoursFiles : ReadCsvTable(df)}

InitSession ==
    /\ pc = "dates"
    /\ df_raw \in SessionFiles
    /\ df_clean = NoTable
    /\ df_entering = NoTable
    /\ warned = {}
    /\ mask_power = <<>>
    /\ nb_outliers = 0
    /\ mask_geo = <<>>
    /\ nb_geo_out = 0
    /\ error = <<>>
    /\ csv_file \in {NoFile, OldFile}
    /\ parquet_file = csv_file
    /\ save_msgs = <<>>
    /\ writes_attempted = <<>>
    /\ call = NoCall
    /\ result = NoResult
    /\ cache = NoCache
    /\ loaded = NoLoad

NextSession ==
    \/ ConvertDates
    \/ ExtractPostal
    \/ AddDepartement
    \/ Clean
    \/ DropNoPostal
    \/ PowerFilter
    \/ GeoFilter
    \/ Save
    \/ LoadOverview
    \/ LoadDeepDives

SpecSession == InitSession /\ [][NextSession]_vars

----------------------------------------------------------------------------
(* The helper functions called on their own *)

MaxChunks == 3
MaxCols == 3

\* pieces an address is made of: postal codes, a run of six digits, shorter
\* runs that join into longer ones, separators, a letter and an underscore
AddressChunks ==
    {<<"7", "5", "0", "1", "0">>, <<"1", "3", "0", "0", "1">>, <<"1", "2", "3", "4", "5", "6">>, <<"7", "5", "0">>, <<"1", "0">>, <<" ">>, <<",">>, <<"a">>, <<"_">>}

RECURSIVE Flatten(_)
Flatten(q) == IF Len(q) = 0 THEN <<>> ELSE Head(q) \o Flatten(Tail(q))

Addresses == {NA} \cup {Str(Flatten(q)) : q \in UpTo(MaxChunks, AddressChunks)}

PostalCodes ==
    {NA, Str(<<"7", "5", "0", "1", "0">>), Str(<<"0", "1", "0", "0", "0">>), Str(<<"2", "0", "0", "0", "0">>), Str(<<"2", "0", "2", "0", "0">>), Str(<<"9", "7", "4", "0", "0">>)}

\* tables with and without a code_postal column
PostalTables ==
    {[columns |-> <<"adresse_station", "code_postal">>,
      index |-> [i \in 1..Len(q) |-> i - 1],
      rows |-> [i \in 1..Len(q) |->
                   [c \in {"adresse_station", "code_postal"} |->
                       IF c = "code_postal" THEN q[i] ELSE AddrParis]]] :
        q \in UpTo(MaxRows, PostalCodes)}
    \cup {[columns |-> <<"adresse_station">>,
            index |-> [i \in 1..n |-> i - 1],
            rows |-> [i \in 1..n |-> [c \in {"adresse_station"} |-> AddrParis]]] :
             n \in 0..MaxRows}

\* department codes as a reloaded file holds them: numbers or texts
DepartementCodes ==
    {NA, Num(1), Num(20), Num(75), Num(971), Str(<<"0", "1">>), Str(<<"2", "0">>), Str(<<"2", "A">>),
     Str(<<"2", "a">>), Str(<<" ", "2", "b", " ">>), Str(<<"9", "7", "1">>)}

ColumnNames ==
    {<<"l", "a", "t", "i", "t", "u", "d", "e">>,
     <<"L", "a", "t", "i", "t", "u", "d", "e">>,
     <<"Y", "_", "L", "a", "t", "i", "t", "u", "d", "e">>,
     <<"L", "A", "T">>,
     <<"g", "e", "o", "_", "l", "a", "t">>,
     <<"m", "y", "_", "l", "a", "t", "i", "t", "u", "d", "e">>,
     <<"n", "o", "m">>}

\* column lists without a repeated name
ColumnLists ==
    {q \in UpTo(MaxCols, ColumnNames) : \A i, j \in DOMAIN q : i # j => q[i] # q[j]}

\* columns next to those of RawOrder: the municipal code, a column that is
\* not in the list of clean_irve, the two columns render adds
ExtraOrder == <<"code_insee_commune", "nom_amenageur", "code_postal", "departement">>

CleanOrder == RawOrder \o ExtraOrder

\* a complete point
FullRow ==
    [c \in SeqRange(CleanOrder) |->
        CASE c = "code_insee_commune" -> Num(75110)
          [] c = "nom_amenageur" -> Str(<<"V", "i", "l", "l", "e">>)
          [] c = "code_postal" -> Str(<<"7", "5", "0", "1", "0">>)
          [] c = "departement" -> Str(<<"7", "5">>)
          [] c = "horaires" -> HoursDay
          [] c = "etat_pdc" -> StatusEnService
          [] OTHER -> PlainRow[c]]

\* a point known by its fallback coordinates and its texts only
FallbackRow ==
    [FullRow EXCEPT !["latitude"] = NA, !["longitude"] = NA,
                    !["consolidated_latitude"] = Num(47),
                    !["consolidated_lagitude"] = Num(46),
                    !["consolidated_longitude"] = Num(3),
                    !["puissance_nominale"] = NA,
                    !["connecteur"] = NA,
                    !["horaires"] = Hours24HUpper,
                    !["accessibilite"] = AccessPublic,
                    !["etat_pdc"] = StatusEnPanne,
                    !["statut_pdc"] = StatusMaintenance]

\* a point with unreadable coordinates and a DC plug
TextRow ==
    [FullRow EXCEPT !["latitude"] = TextBad, !["longitude"] = TextBad,
                    !["consolidated_latitude"] = Num(47),
                    !["connecteur"] = ConnCCS,
                    !["puissance_nominale"] = Num(150)]

CoordCols ==
    {"latitude", "longitude", "consolidated_longitude", "consolidated_latitude",
     "consolidated_lagitude", "code_insee_commune", "nom_amenageur"}

FieldCols ==
    {"puissance_nominale", "connecteur", "horaires", "accessibilite",
     "conditions_acces", "etat_pdc", "statut_pdc"}

\* tables with any subset of the coordinate columns or of the field columns,
\* the empty subset included
CleanTables ==
    {df \in {[columns |-> KeepIn(CleanOrder, colset),
               index |-> [i \in 1..Len(q) |-> i - 1],
               rows |-> [i \in 1..Len(q) |-> [c \in colset |-> q[i][c]]]] :
                 colset \in (SUBSET CoordCols) \cup (SUBSET FieldCols)
                            \cup {SeqRange(CleanOrder)},
                 q \in UpTo(MaxRows, {FullRow, FallbackRow, TextRow})} :
        \* code_postal and departement are texts render has added in memory
        \A c \in SeqRange(df.columns) \ {"code_postal", "departement"} :
            ReadCsvColumn(df, c)}

HelperCalls ==
    {[NoCall EXCEPT !.fn = "extract_code_postal", !.text = a] : a \in Addresses}
    \cup {[NoCall EXCEPT !.fn = "add_departement_from_cp_simple", !.df = df] :
             df \in PostalTables}
    \cup {[NoCall EXCEPT !.fn = "norm_code", !.text = x] : x \in DepartementCodes}
    \cup {[NoCall EXCEPT !.fn = "_first_col",
                          !.columns = q,
                          !.candidates = LAT_CANDS] : q \in ColumnLists}
    \cup {[NoCall EXCEPT !.fn = "clean_irve", !.df = df] : df \in CleanTables}

InitHelpers ==
    /\ pc = "call"
    /\ call \in HelperCalls
    /\ result = NoResult
    /\ cache = NoCache
    /\ loaded = NoLoad
    /\ df_raw = NoTable
    /\ df_clean = NoTable
    /\ df_entering = NoTable
    /\ warned = {}
    /\ mask_power = <<>>
    /\ nb_outliers = 0
    /\ mask_geo = <<>>
    /\ nb_geo_out = 0
    /\ error = <<>>
    /\ csv_file = NoFile
    /\ parquet_file = NoFile
    /\ save_msgs = <<>>
    /\ writes_attempted = <<>>

\* the call of fn ends with the outcome res: the value or the table returned,
\* the exception raised, and arg, the caller's table as it is after the call
ReturnsWith(fn, res) ==
    /\ pc = "call"
    /\ call.fn = fn
    /\ result' = res
    /\ pc' = "returned"
    /\ UNCHANGED <<df_raw, df_clean, df_entering, warned, mask_power, nb_outliers,
                   mask_geo, nb_geo_out, error, csv_file, parquet_file, save_msgs,
                   writes_attempted, call, cache, loaded>>

\* a call that leaves its argument alone
Returns(fn, value, df) ==
    ReturnsWith(fn, [NoResult EXCEPT !.value = value, !.df = df, !.arg = call.df])

CallExtract ==
    Returns("extract_code_postal", extract_code_postal(call.text), NoTable)

\* lines 12 and 14 assign the new column into the table passed in, line 15
\* returns that same table
CallAddDepartement ==
    LET out == add_departement_from_cp_simple(call.df, "code_postal") IN
    ReturnsWith("add_departement_from_cp_simple",
                [NoResult EXCEPT !.df = out, !.arg = out])

\* line 26 works on a copy of the table passed in
CallClean ==
    ReturnsWith("clean_irve",
                IF clean_irve_raises(call.df)
                THEN [NoResult EXCEPT !.raised = "AttributeError", !.arg = call.df]
                ELSE [NoResult EXCEPT !.df = clean_irve(call.df), !.arg = call.df])

\* clean_irve once more: on the table it returned, and on the caller's table
CallCleanAgain ==
    /\ pc = "returned"
    /\ call.fn = "clean_irve"
    /\ result.raised = ""
    /\ result' = IF clean_irve_raises(result.df) \/ clean_irve_raises(result.arg)
                 THEN [result EXCEPT !.raised = "AttributeError"]
                 ELSE [result EXCEPT !.again = clean_irve(result.df),
                                     !.second = clean_irve(result.arg)]
    /\ pc' = "reapplied"
    /\ UNCHANGED <<df_raw, df_clean, df_entering, warned, mask_power, nb_outliers,
                   mask_geo, nb_geo_out, error, csv_file, parquet_file, save_msgs,
                   writes_attempted, call, cache, loaded>>

CallNormCode ==
    Returns("norm_code", norm_code(call.text), NoTable)

CallFirstCol ==
    Returns("_first_col", _first_col(call.columns, call.candidates), NoTable)

NextHelpers ==
    \/ CallExtract
    \/ CallAddDepartement
    \/ CallNormCode
    \/ CallFirstCol
    \/ CallClean
    \/ CallCleanAgain

SpecHelpers == InitHelpers /\ [][NextHelpers]_vars

----------------------------------------------------------------------------
(* Properties *)

Max(a, b) == IF a >= b THEN a ELSE b

\* the cell of column c in a row, NA when the table has no such column
CellOr(df, row, c) == IF HasCol(df, c) THEN row[c] ELSE NA

\* the raw power cell reads as a number
IsNumeric(p) == p.k = "num" \/ (p.k = "str" /\ IsNumberText(p.s))
NumericValue(p) == IF p.k = "num" THEN p.n ELSE NumberOfText(p.s)

\* C1: for every row of the cleaned table whose raw table has a
\* puissance_nominale column, puissance_kw is max(0, p) when the raw power p
\* is numeric and absent when p is absent or not numeric; no puissance_kw is
\* negative.
C1_PowerClamped ==
    \A l \in Labels(df_clean) :
        LET raw == RowOf(df_raw, l)
            out == RowOf(df_clean, l)
        IN HasCol(df_raw, "puissance_nominale") =>
              /\ HasCol(df_clean, "puissance_kw")
              /\ LET p == raw["puissance_nominale"]
                     kw == out["puissance_kw"]
                 IN /\ IsNumeric(p) => kw = Num(Max(0, NumericValue(p)))
                    /\ ~IsNumeric(p) => kw = NA
                    /\ kw.k = "num" => kw.n >= 0

\* C1 witness: a negative raw power was clamped to 0
C1_Witness ==
    \E l \in Labels(df_clean) :
        /\ HasCol(df_clean, "puissance_kw")
        /\ RowOf(df_raw, l)["puissance_nominale"] = Num(-5)
        /\ RowOf(df_clean, l)["puissance_kw"] = Num(0)

\* C2: for every cleaned row with rated power x, the category is AC_lente
\* iff x <= 7, AC_standard iff 7 < x <= 22, DC_moyenne iff 22 < x <= 49,
\* DC_rapide iff 49 < x <= 149, DC_ultra iff x > 149, inconnu iff x is absent.
C2_PowerTiers ==
    \A l \in Labels(df_clean) :
        HasCol(df_clean, "puissance_kw") =>
            LET x == RowOf(df_clean, l)["puissance_kw"]
                cat == RowOf(df_clean, l)["categorie_puissance"]
                has == x.k = "num"
            IN /\ cat = "AC_lente" <=> (has /\ x.n <= 7)
               /\ cat = "AC_standard" <=> (has /\ 7 < x.n /\ x.n <= 22)
               /\ cat = "DC_moyenne" <=> (has /\ 22 < x.n /\ x.n <= 49)
               /\ cat = "DC_rapide" <=> (has /\ 49 < x.n /\ x.n <= 149)
               /\ cat = "DC_ultra" <=> (has /\ x.n > 149)
               /\ cat = "inconnu" <=> ~has
               /\ cat \in {"AC_lente", "AC_standard", "DC_moyenne", "DC_rapide",
                           "DC_ultra", "inconnu"}

\* C2 witness: a point of exactly 49 kW is classified DC_moyenne
C2_Witness ==
    \E l \in Labels(df_clean) :
        /\ HasCol(df_clean, "puissance_kw")
        /\ RowOf(df_clean, l)["puissance_kw"] = Num(49)
        /\ RowOf(df_clean, l)["categorie_puissance"] = "DC_moyenne"

\* the raw row of the scenario: Paris address, CCS connector, 150 kW
IsScenarioRow(l) ==
    /\ HasCol(df_raw, "connecteur")
    /\ HasCol(df_raw, "puissance_nominale")
    /\ RowOf(df_raw, l)["adresse_station"] = AddrParis
    /\ RowOf(df_raw, l)["connecteur"] = ConnCCS
    /\ RowOf(df_raw, l)["puissance_nominale"] = Num(150)

ScenarioYields(l, category) ==
    LET out == RowOf(df_clean, l) IN
    /\ out["code_postal"] = Str(<<"7", "5", "0", "1", "0">>)
    /\ out["departement"] = Str(<<"7", "5">>)
    /\ out["is_dc"] = TRUE
    /\ out["puissance_kw"] = Num(150)
    /\ out["categorie_puissance"] = category

\* C3 as stated: the scenario row is cleaned to postal code 75010, department
\* 75, is_dc true, 150 kW and category DC_rapide.
C3_Original ==
    \A l \in Labels(df_clean) : IsScenarioRow(l) => ScenarioYields(l, "DC_rapide")

\* C3 amended: the scenario row is cleaned to postal code 75010, department
\* 75, is_dc true, 150 kW and category DC_ultra (150 lies above the 149
\* bound of DC_rapide).
C3_Scenario ==
    \A l \in Labels(df_clean) : IsScenarioRow(l) => ScenarioYields(l, "DC_ultra")

\* C3 witness: the scenario row has been cleaned
C3_Witness ==
    \E l \in Labels(df_clean) : IsScenarioRow(l) /\ pc = "dropna"

\* the connector-text keyword rule, on one raw connector cell
KeywordRule(k) ==
    /\ k.k = "str"
    /\ \/ ContainsText(Lower(k.s), <<"d", "c">>)
       \/ ContainsText(Lower(k.s), <<"c", "c", "s">>)
       \/ ContainsText(Lower(k.s), <<"c", "o", "m", "b", "o">>)
       \/ ContainsText(Lower(k.s), <<"c", "h", "a", "d", "e", "m", "o">>)

\* C4: whenever the raw table has a connecteur column, is_dc of every cleaned
\* row is the keyword rule on its connector text, and two rows with the same
\* connector value have the same is_dc whatever their powers.
C4_ConnectorColumnDecides ==
    HasCol(df_raw, "connecteur") =>
        /\ \A l \in Labels(df_clean) :
              RowOf(df_clean, l)["is_dc"] = KeywordRule(RowOf(df_raw, l)["connecteur"])
        /\ \A l1, l2 \in Labels(df_clean) :
              RowOf(df_raw, l1)["connecteur"] = RowOf(df_raw, l2)["connecteur"]
                  => RowOf(df_clean, l1)["is_dc"] = RowOf(df_clean, l2)["is_dc"]

\* C4 witness: two Type 2 rows of 10 kW and 50 kW, both not DC
C4_Witness ==
    /\ HasCol(df_raw, "connecteur")
    /\ HasCol(df_raw, "puissance_nominale")
    /\ \E l1, l2 \in Labels(df_clean) :
          /\ RowOf(df_raw, l1)["connecteur"] = ConnT2
          /\ RowOf(df_raw, l2)["connecteur"] = ConnT2
          /\ RowOf(df_raw, l1)["puissance_nominale"] = Num(10)
          /\ RowOf(df_raw, l2)["puissance_nominale"] = Num(50)
          /\ RowOf(df_clean, l1)["is_dc"] = FALSE
          /\ RowOf(df_clean, l2)["is_dc"] = FALSE

\* the rated power of a cleaned row is at least 24 kW
PowerRule(df, row) ==
    LET kw == CellOr(df, row, "puissance_kw") IN kw.k = "num" /\ kw.n >= 24

\* C5 as stated: wherever is_dc is produced, a record whose connector text is
\* present gets the keyword rule and a record whose connector text is absent
\* gets power >= 24.
C5_Original ==
    \A l \in Labels(df_clean) :
        HasCol(df_clean, "is_dc") =>
            LET k == CellOr(df_raw, RowOf(df_raw, l), "connecteur")
                isdc == RowOf(df_clean, l)["is_dc"]
            IN IF k.k = "str"
               THEN isdc = KeywordRule(k)
               ELSE isdc = PowerRule(df_clean, RowOf(df_clean, l))

\* C5 amended: the choice of rule is made per table, not per record. With a
\* connecteur column, is_dc is the keyword rule, false for a record whose
\* connector text is absent whatever its power; without a connecteur column
\* and with a power column, is_dc is power >= 24, false when the power is
\* absent; with neither column no is_dc is produced.
C5_PerTable ==
    \A l \in Labels(df_clean) :
        LET out == RowOf(df_clean, l) IN
        IF HasCol(df_raw, "connecteur")
        THEN out["is_dc"] = KeywordRule(RowOf(df_raw, l)["connecteur"])
        ELSE IF HasCol(df_raw, "puissance_nominale")
        THEN out["is_dc"] = PowerRule(df_clean, out)
        ELSE ~HasCol(df_clean, "is_dc")

\* C5 witness: in a table with a connecteur column, a record without
\* connector text and with 50 kW is not DC
C5_Witness ==
    /\ HasCol(df_raw, "connecteur")
    /\ HasCol(df_clean, "puissance_kw")
    /\ \E l \in Labels(df_clean) :
          /\ RowOf(df_raw, l)["connecteur"] = NA
          /\ RowOf(df_clean, l)["puissance_kw"] = Num(50)
          /\ RowOf(df_clean, l)["is_dc"] = FALSE

\* the first cell that parses among the existing columns of names, in order
RECURSIVE FirstParsed(_, _, _)
FirstParsed(df, row, names) ==
    IF Len(names) = 0 THEN NA
    ELSE LET v == IF HasCol(df, Head(names)) THEN to_numeric(row[Head(names)]) ELSE NA
         IN IF v.k = "num" THEN v ELSE FirstParsed(df, row, Tail(names))

\* C6 as stated: for every row, the final latitude and longitude are the
\* first value that parses among the primary column and then the fallback
\* columns in order, absent when none parses, whatever columns exist.
C6_Original ==
    \A l \in Labels(df_clean) :
        LET raw == RowOf(df_raw, l)
            out == RowOf(df_clean, l)
        IN /\ CellOr(df_clean, out, "latitude") =
                 FirstParsed(df_raw, raw, <<"latitude", "consolidated_latitude",
                                            "consolidated_lagitude">>)
           /\ CellOr(df_clean, out, "longitude") =
                 FirstParsed(df_raw, raw, <<"longitude", "consolidated_longitude">>)

\* the geo rule has run on df_clean in this step
GeoRuleStep ==
    /\ pc = "geo"
    /\ pc' = "save"
    /\ HasCol(df_clean, "latitude")
    /\ HasCol(df_clean, "longitude")

\* both coordinates of the row are present and the point lies outside the box
OutsideBox(row) ==
    /\ row["latitude"].k = "num"
    /\ row["longitude"].k = "num"
    /\ ~(/\ -22 <= row["latitude"].n /\ row["latitude"].n <= 52
         /\ -63 <= row["longitude"].n /\ row["longitude"].n <= 55)

PowerRuleStep ==
    /\ pc = "power"
    /\ pc' = "geo"
    /\ HasCol(df_clean, "puissance_kw")

\* C8 as stated: the power rule removes a row iff its puissance_kw is
\* strictly greater than 400; rows of at most 400 kW or of absent power stay.
C8_Original ==
    [][PowerRuleStep =>
          \A l \in Labels(df_clean) :
              (l \notin Labels(df_clean')) <=>
                  (/\ RowOf(df_clean, l)["puissance_kw"].k = "num"
                   /\ RowOf(df_clean, l)["puissance_kw"].n > 400)]_vars

\* both outlier rules have run
BothRulesRan ==
    /\ pc \in {"save", "done"}
    /\ HasCol(df_entering, "puissance_kw")
    /\ HasCol(df_entering, "latitude")
    /\ HasCol(df_entering, "longitude")

\* a row entering the outlier removal with more than 400 kW and a point
\* outside the box
BothDefects(l) ==
    /\ RowOf(df_entering, l)["puissance_kw"].k = "num"
    /\ RowOf(df_entering, l)["puissance_kw"].n > 400
    /\ OutsideBox(RowOf(df_entering, l))

CountedByPower(l) == l \in DOMAIN mask_power /\ mask_power[l]
CountedByGeo(l) == l \in DOMAIN mask_geo /\ ~mask_geo[l]

\* C9 as stated: a row with more than 400 kW and coordinates outside the box
\* is counted in the power-removal count and also in the geo-removal count.
C9_Original ==
    BothRulesRan =>
        \A l \in Labels(df_entering) :
            BothDefects(l) => CountedByPower(l) /\ CountedByGeo(l)

\* C9 amended: the two rules run one after the other and their counts are
\* reported separately: the power count is taken on the table entering the
\* outlier removal, the geo count on the rows the power rule left, so a row
\* with more than 400 kW and coordinates outside the box is counted in the
\* power-removal count and not in the geo-removal count.
C9_Sequential ==
    BothRulesRan =>
        /\ nb_outliers = Cardinality({l \in Labels(df_entering) : CountedByPower(l)})
        /\ nb_geo_out = Cardinality({l \in Labels(df_entering) : CountedByGeo(l)})
        /\ \A l \in Labels(df_entering) :
              /\ CountedByPower(l) <=>
                    (/\ RowOf(df_entering, l)["puissance_kw"].k = "num"
                     /\ RowOf(df_entering, l)["puissance_kw"].n > 400)
              /\ CountedByPower(l) => l \notin DOMAIN mask_geo
              /\ BothDefects(l) => CountedByPower(l) /\ ~CountedByGeo(l)

\* C9 witness: a row with both defects next to a row that only lies outside
\* the box: one removal counted by each rule
C9_Witness ==
    /\ BothRulesRan
    /\ \E l1, l2 \in Labels(df_entering) :
          /\ BothDefects(l1)
          /\ ~CountedByPower(l2)
          /\ CountedByGeo(l2)
    /\ nb_outliers = 1
    /\ nb_geo_out = 1

\* C10: after the outlier removal, every row left with both coordinates
\* present has -22 <= latitude <= 52 and -63 <= longitude <= 55.
C10_SurvivorsInBox ==
    (pc \in {"save", "done"} /\ HasCol(df_clean, "latitude")
                             /\ HasCol(df_clean, "longitude")) =>
        \A l \in Labels(df_clean) :
            LET la == RowOf(df_clean, l)["latitude"]
                lo == RowOf(df_clean, l)["longitude"]
            IN (~IsNA(la) /\ ~IsNA(lo)) =>
                  /\ la.k = "num" /\ -22 <= la.n /\ la.n <= 52
                  /\ lo.k = "num" /\ -63 <= lo.n /\ lo.n <= 55

\* C10 witness: a point on the corner (52, 55) of the box was kept
C10_Witness ==
    /\ pc = "save"
    /\ HasCol(df_clean, "latitude")
    /\ HasCol(df_clean, "longitude")
    /\ \E l \in Labels(df_clean) :
          /\ RowOf(df_clean, l)["latitude"] = Num(52)
          /\ RowOf(df_clean, l)["longitude"] = Num(55)

----------------------------------------------------------------------------
(* Persistence *)

\* the file holds the whole table df: its columns and its rows
Holds(file, df) ==
    /\ file.kind = "table"
    /\ file.columns = df.columns
    /\ file.rows = df.rows

\* C11 as stated: when the saving section has run, both writers were called,
\* whatever the first one did (a CSV failure does not keep the parquet write
\* from being attempted), and a run that called a writer has not crashed.
C11_Original ==
    /\ pc = "done" =>
          \E i, j \in DOMAIN writes_attempted :
              writes_attempted[i] = "to_csv" /\ writes_attempted[j] = "to_parquet"
    /\ writes_attempted # <<>> => pc # "crashed"

\* C12 as stated: in every end state either both files hold the full
\* cleaned table, or the run failed and neither file was written.
C12_Original ==
    pc \in {"done", "crashed"} =>
        \/ Holds(csv_file, df_clean) /\ Holds(parquet_file, df_clean)
        \/ csv_file = NoFile /\ parquet_file = NoFile

\* the saving section reported no error
Persisted ==
    /\ pc = "done"
    /\ \A i \in DOMAIN save_msgs : save_msgs[i] # "error"

\* the column set and the row count a reload of the file yields
ReloadedColumns(file) == {file.columns[i] : i \in DOMAIN file.columns}
ReloadedCount(file) == Len(file.rows)

\* C13: after a run that persisted, the CSV and the parquet file both hold
\* the rows and columns of the final cleaned table: reloading either gives
\* the row count and the column set of df_clean.
C13_FilesHoldCleanTable ==
    Persisted =>
        /\ Holds(csv_file, df_clean)
        /\ Holds(parquet_file, df_clean)
        /\ \A file \in {csv_file, parquet_file} :
              /\ ReloadedCount(file) = NRows(df_clean)
              /\ ReloadedColumns(file) = {df_clean.columns[i] : i \in DOMAIN df_clean.columns}

\* C13 witness: a table that lost a row to the outlier removal was persisted
C13_Witness ==
    /\ Persisted
    /\ NRows(df_clean) = 1
    /\ NRows(df_raw) = 2
    /\ ReloadedCount(csv_file) = 1
    /\ ReloadedCount(parquet_file) = 1

----------------------------------------------------------------------------
(* Labels derived from free text *)

\* the text kw occurs somewhere in the text t
Occurs(t, kw) ==
    \E i \in 1..Len(t) : i + Len(kw) - 1 <= Len(t) /\ SubSeq(t, i, i + Len(kw) - 1) = kw

\* a keyword of the set occurs in the cell, whatever the case of the cell
Mentions(v, keywords) ==
    v.k = "str" /\ \E kw \in keywords : Occurs(Lower(v.s), kw)

\* C14: the normalised status of every cleaned row is en_service when an
\* in-service keyword occurs in its lower-cased raw status, otherwise
\* hors_service when an out-of-service keyword occurs, otherwise maintenance
\* when the maintenance keyword occurs, otherwise inconnu; a row whose raw
\* status is absent is inconnu.
C14_StatusPriority ==
    HasCol(df_clean, "statut_normalise") =>
        \A l \in Labels(df_clean) :
            LET raw == RowOf(df_raw, l)[StatutSource(df_raw)]
                out == RowOf(df_clean, l)["statut_normalise"]
            IN /\ out = IF Mentions(raw, InServiceKeywords) THEN "en_service"
                        ELSE IF Mentions(raw, OutOfServiceKeywords) THEN "hors_service"
                        ELSE IF Mentions(raw, MaintenanceKeywords) THEN "maintenance"
                        ELSE "inconnu"
               /\ IsNA(raw) => out = "inconnu"

\* C14 witness: a status naming a breakdown and a maintenance is
\* hors_service, one naming service and a breakdown is en_service
C14_Witness ==
    /\ HasCol(df_clean, "statut_normalise")
    /\ HasCol(df_raw, "etat_pdc")
    /\ HasCol(df_raw, "statut_pdc")
    /\ \E l \in Labels(df_clean) :
          /\ RowOf(df_raw, l)["etat_pdc"] = StatusPanneMaintenance
          /\ RowOf(df_raw, l)["statut_pdc"] = StatusEnService
          /\ RowOf(df_clean, l)["statut_normalise"] = "hors_service"

\* C18: access_24_7 of every cleaned row is a boolean: true when the hours
\* text contains, in any case, "24/7", "24h", "24 h" or "24 heures", false
\* for any other text and for absent hours, and false in every row when the
\* raw table has no hours column.
C18_Access247 ==
    pc \notin {"dates", "postal", "dept", "clean", "crashed"} =>
        /\ HasCol(df_clean, "access_24_7")
        /\ \A l \in Labels(df_clean) :
              LET out == RowOf(df_clean, l)["access_24_7"] IN
              /\ out \in BOOLEAN
              /\ IF HasCol(df_raw, "horaires")
                 THEN out = Mentions(RowOf(df_raw, l)["horaires"], Keywords247)
                 ELSE out = FALSE

\* C18 witness: "Acces 24 H" is open around the clock, the row next to it
\* without hours is not
C18_Witness ==
    /\ HasCol(df_clean, "access_24_7")
    /\ HasCol(df_raw, "horaires")
    /\ \E l1, l2 \in Labels(df_clean) :
          /\ RowOf(df_raw, l1)["horaires"] = Hours24HUpper
          /\ RowOf(df_clean, l1)["access_24_7"] = TRUE
          /\ RowOf(df_raw, l2)["horaires"] = NA
          /\ RowOf(df_clean, l2)["access_24_7"] = FALSE

----------------------------------------------------------------------------
(* Postal code and department *)

Returned(fn) == pc = "returned" /\ call.fn = fn

\* C15: the department code of every row is the first two characters of its
\* postal code, and it is absent for every row whose postal code is absent
\* and for every row of a table without a postal-code column.
C15_DepartementFromPostal ==
    Returned("add_departement_from_cp_simple") =>
        /\ HasCol(result.df, "departement")
        /\ NRows(result.df) = NRows(call.df)
        /\ \A i \in 1..NRows(call.df) :
              LET dep == result.df.rows[i]["departement"] IN
              IF HasCol(call.df, "code_postal") /\ ~IsNA(call.df.rows[i]["code_postal"])
              THEN LET cp == call.df.rows[i]["code_postal"].s
                   IN dep = Str(<<cp[1], cp[2]>>)
              ELSE IsNA(dep)

\* C15 witness: postal code 01000 next to a row without postal code
C15_Witness ==
    /\ Returned("add_departement_from_cp_simple")
    /\ HasCol(result.df, "code_postal")
    /\ NRows(result.df) = 2
    /\ result.df.rows[1]["code_postal"] = Str(<<"0", "1", "0", "0", "0">>)
    /\ result.df.rows[1]["departement"] = Str(<<"0", "1">>)
    /\ result.df.rows[2]["code_postal"] = NA
    /\ result.df.rows[2]["departement"] = NA

\* the postal code lies in Corsica: 20xxx
Corsican(cp) == cp.k = "str" /\ Len(cp.s) = 5 /\ cp.s[1] = "2" /\ cp.s[2] = "0"

CorsicanCodes == {<<"2", "A">>, <<"2", "B">>}

\* the rows of a table returned by the department derivation: postal code
\* and department code
DerivedRows ==
    {<<result.df.rows[i]["code_postal"], result.df.rows[i]["departement"]>> :
        i \in {j \in 1..NRows(result.df) :
                  Returned("add_departement_from_cp_simple")
                  /\ HasCol(result.df, "code_postal")}}

\* C16 as stated: every department code that is not absent has exactly two
\* characters, and a record in Corsica carries 2A or 2B.
C16_Original ==
    \A r \in DerivedRows :
        ~IsNA(r[2]) =>
            /\ Len(r[2].s) = 2
            /\ Corsican(r[1]) => r[2].s \in CorsicanCodes

\* C16 amended: every department code that is not absent is the two leading
\* digits of the postal code, leading zero kept; a record in Corsica (postal
\* code 20xxx) carries 20, never 2A or 2B, and the code normaliser of the
\* department view keeps 20 as it is: it pads a one-digit code with a zero
\* and upper-cases 2a and 2b, nothing more.
C16_TwoLeadingDigits ==
    /\ \A r \in DerivedRows :
          ~IsNA(r[2]) =>
              /\ Len(r[2].s) = 2
              /\ IsDigit(r[2].s[1]) /\ IsDigit(r[2].s[2])
              /\ r[2].s = SubSeq(r[1].s, 1, 2)
              /\ Corsican(r[1]) => r[2] = Str(<<"2", "0">>)
    /\ Returned("norm_code") =>
          /\ call.text \in {Num(20), Str(<<"2", "0">>)} => result.value = Str(<<"2", "0">>)
          /\ call.text \in {Num(1), Str(<<"0", "1">>)} => result.value = Str(<<"0", "1">>)
          /\ call.text \in {Str(<<"2", "a">>), Str(<<"2", "A">>)} => result.value = Str(<<"2", "A">>)
          /\ call.text = Str(<<" ", "2", "b", " ">>) => result.value = Str(<<"2", "B">>)

\* C16 witness: a record of Ajaccio (20000) got the department code 20
C16_Witness ==
    <<Str(<<"2", "0", "0", "0", "0">>), Str(<<"2", "0">>)>> \in DerivedRows

\* a word of the text starts at i: a word character after none
WordStartsAt(t, i) == IsWordChar(t[i]) /\ (i = 1 \/ ~IsWordChar(t[i - 1]))

\* the last position of the word that starts at i
WordEnd(t, i) ==
    CHOOSE j \in i..Len(t) :
        /\ \A k \in i..j : IsWordChar(t[k])
        /\ (j = Len(t) \/ ~IsWordChar(t[j + 1]))

\* the positions of the words of the text that are exactly five digits
Tokens(t) ==
    {i \in 1..Len(t) :
        /\ WordStartsAt(t, i)
        /\ WordEnd(t, i) = i + 4
        /\ \A k \in i..(i + 4) : IsDigit(t[k])}

\* C17: the postal-code extractor returns the leftmost word of the address
\* that is a run of exactly five digits (the only one when there is one),
\* and absent when the address has no such word, a run of six digits being
\* none, or when the address is absent.
C17_LeftmostFiveDigitToken ==
    Returned("extract_code_postal") =>
        IF IsNA(call.text) \/ Tokens(call.text.s) = {}
        THEN IsNA(result.value)
        ELSE LET t == call.text.s
                 first == CHOOSE i \in Tokens(t) : \A j \in Tokens(t) : i <= j
             IN result.value = Str(SubSeq(t, first, first + 4))

\* C17 witness: of "13001 75010" the extractor returned 13001
C17_Witness ==
    /\ Returned("extract_code_postal")
    /\ call.text = Str(<<"1", "3", "0", "0", "1", " ", "7", "5", "0", "1", "0">>)
    /\ result.value = Str(<<"1", "3", "0", "0", "1">>)

----------------------------------------------------------------------------
(* Column resolver *)

\* the positions of the columns whose name equals a candidate, whatever the
\* case of the column name
ExactColumns ==
    {i \in DOMAIN call.columns :
        \E k \in DOMAIN call.candidates : Lower(call.columns[i]) = call.candidates[k]}

\* the positions of the columns whose lower-cased name contains candidate k
ColumnsWith(k) ==
    {i \in DOMAIN call.columns : Occurs(Lower(call.columns[i]), call.candidates[k])}

\* the candidates some column contains
ContainedCandidates == {k \in DOMAIN call.candidates : ColumnsWith(k) # {}}

Least(S) == CHOOSE x \in S : \A y \in S : x <= y
Greatest(S) == CHOOSE x \in S : \A y \in S : y <= x

\* C19 as stated: when a column equals a candidate case-insensitively, the
\* resolver returns the first such column in the order of the columns.
C19_Original ==
    (Returned("_first_col") /\ ExactColumns # {}) =>
        result.value = Str(call.columns[Least(ExactColumns)])

\* C19 amended: when a column equals a candidate case-insensitively, the
\* resolver returns the column that equals the first candidate, in the order
\* of the candidates, that has such a column; of several columns that differ
\* only by case it returns the last.
C19_CandidateOrder ==
    (Returned("_first_col") /\ ExactColumns # {}) =>
        LET Same(k) == {i \in DOMAIN call.columns :
                           Lower(call.columns[i]) = call.candidates[k]}
            best == Least({k \in DOMAIN call.candidates : Same(k) # {}})
        IN result.value = Str(call.columns[Greatest(Same(best))])

\* C19 witness: of the columns latitude, Y_Latitude the resolver returned
\* Y_Latitude, the column of the first candidate
C19_Witness ==
    /\ Returned("_first_col")
    /\ call.columns = <<<<"l", "a", "t", "i", "t", "u", "d", "e">>, <<"Y", "_", "L", "a", "t", "i", "t", "u", "d", "e">>>>
    /\ result.value = Str(<<"Y", "_", "L", "a", "t", "i", "t", "u", "d", "e">>)

\* C20 as stated: when no column equals a candidate, the resolver returns a
\* column whose lower-cased name contains the first candidate, in the order
\* of the candidates, that any column contains, and absent when no column
\* contains a candidate.
C20_Original ==
    (Returned("_first_col") /\ ExactColumns = {}) =>
        IF ContainedCandidates = {}
        THEN IsNA(result.value)
        ELSE \E i \in ColumnsWith(Least(ContainedCandidates)) :
                 result.value = Str(call.columns[i])

\* C20 amended: when no column equals a candidate, the resolver returns the
\* first column, in the order of the columns, whose lower-cased name
\* contains any candidate, and absent when no column contains a candidate.
C20_ColumnOrder ==
    (Returned("_first_col") /\ ExactColumns = {}) =>
        LET loose == UNION {ColumnsWith(k) : k \in DOMAIN call.candidates}
        IN IF loose = {}
           THEN IsNA(result.value)
           ELSE result.value = Str(call.columns[Least(loose)])

\* C20 witness: of the columns geo_lat, my_latitude the resolver returned
\* geo_lat, although my_latitude contains the first candidate y_latitude
C20_Witness ==
    /\ Returned("_first_col")
    /\ call.columns = <<<<"g", "e", "o", "_", "l", "a", "t">>, <<"m", "y", "_", "l", "a", "t", "i", "t", "u", "d", "e">>>>
    /\ result.value = Str(<<"g", "e", "o", "_", "l", "a", "t">>)

----------------------------------------------------------------------------
(* clean_irve as a function of its table *)

\* C21 as stated: for a table with any subset of the expected columns,
\* clean_irve completes and returns a table: no call of it raises.
C21_Original ==
    (pc \in {"returned", "reapplied"} /\ call.fn = "clean_irve") => result.raised = ""

\* the fields clean_irve derives
DerivedFields ==
    {"categorie_puissance", "is_dc", "access_24_7", "est_publique",
     "statut_normalise", "latitude", "longitude"}

\* the two tables have the same rows and agree on every derived field
SameDerived(a, b) ==
    /\ a.index = b.index
    /\ \A f \in DerivedFields :
          /\ HasCol(a, f) <=> HasCol(b, f)
          /\ HasCol(a, f) => \A i \in 1..NRows(a) : a.rows[i][f] = b.rows[i][f]

Reapplied == pc = "reapplied" /\ call.fn = "clean_irve" /\ result.raised = ""

\* C22: clean_irve applied to the table it returned gives every record the
\* same categorie_puissance, is_dc, access_24_7, est_publique,
\* statut_normalise, latitude and longitude as the first application, and a
\* second application to the caller's raw table returns a table equal to the
\* first result.
C22_Idempotent ==
    Reapplied =>
        /\ SameDerived(result.df, result.again)
        /\ result.second = result.df

\* C22 witness: a point whose latitude came from consolidated_latitude and
\* whose status is hors_service keeps both when cleaned again
C22_Witness ==
    /\ Reapplied
    /\ call.df.columns = CleanOrder
    /\ call.df.rows = <<FullRow, FallbackRow>>
    /\ result.df.rows[2]["latitude"] = Num(47)
    /\ result.again.rows[2]["latitude"] = Num(47)
    /\ ~HasCol(result.df, "consolidated_latitude")
    /\ result.again.rows[2]["statut_normalise"] = "hors_service"

\* clean_irve has returned a table
Cleaned == pc \in {"returned", "reapplied"} /\ call.fn = "clean_irve" /\ result.raised = ""

WorkingColumns ==
    {"code_insee_commune", "consolidated_latitude", "consolidated_longitude",
     "consolidated_lagitude"}

\* C23 as stated: the table clean_irve returns has no code_insee_commune, no
\* consolidated_latitude, no consolidated_longitude and no
\* consolidated_lagitude column.
C23_Original ==
    Cleaned => \A c \in WorkingColumns : ~HasCol(result.df, c)

NoRepeat(q) == \A i, j \in DOMAIN q : i # j => q[i] # q[j]

\* the columns of q that belong to the front list come first, in the order
\* of the front list
FrontFirst(q) ==
    LET front == KeepIn(frontList, SeqRange(q)) IN
    /\ Len(front) <= Len(q)
    /\ SubSeq(q, 1, Len(front)) = front

\* C24 as stated: in the table clean_irve returns the front columns that
\* exist come first in the front order, every other column of the raw table
\* that is no working column is retained, and no column appears twice.
C24_Original ==
    Cleaned =>
        /\ FrontFirst(result.df.columns)
        /\ NoRepeat(result.df.columns)
        /\ \A c \in SeqRange(call.df.columns) \ WorkingColumns : HasCol(result.df, c)

\* the columns clean_irve adds
AddedColumns ==
    {"puissance_kw", "categorie_puissance", "is_dc", "access_24_7", "est_publique",
     "statut_normalise", "latitude", "longitude"}

\* C24 amended: clean_irve retains the columns of the raw table that are in
\* its fixed list of useful columns, and only those: a raw column outside
\* that list is dropped. In the table returned the front columns that exist
\* come first in the front order; the other retained columns follow in the
\* order of the list (not of the raw table), without code_insee_commune,
\* consolidated_latitude and consolidated_longitude; no column appears twice.
C24_ListedColumnsKept ==
    Cleaned =>
        LET out == result.df.columns
            listed == (SeqRange(call.df.columns) \cap SeqRange(cols))
                          \ {"code_insee_commune", "consolidated_latitude",
                              "consolidated_longitude"}
        IN /\ FrontFirst(out)
           /\ NoRepeat(out)
           /\ listed \subseteq SeqRange(out)
           /\ SeqRange(out) \subseteq listed \cup AddedColumns
           /\ out = KeepIn(frontList, SeqRange(out))
                       \o KeepIn(cols, SeqRange(out) \ SeqRange(frontList))

\* C24 witness: of a raw table with nom_amenageur, horaires and
\* consolidated_lagitude, the table returned has no nom_amenageur and ends
\* with consolidated_lagitude, accessibilite, conditions_acces, horaires
C24_Witness ==
    /\ Cleaned
    /\ HasCol(call.df, "nom_amenageur")
    /\ HasCol(call.df, "horaires")
    /\ ~HasCol(result.df, "nom_amenageur")
    /\ HasCol(result.df, "consolidated_lagitude")
    /\ HasCol(result.df, "horaires")
    /\ result.df.columns[1] = "adresse_station"

\* C26 as stated: after clean_irve(t) and after
\* add_departement_from_cp_simple(t), the caller's table t has the columns
\* and the values it had before the call.
C26_Original ==
    (pc = "returned" /\ call.fn \in {"clean_irve", "add_departement_from_cp_simple"}) =>
        result.arg = call.df

----------------------------------------------------------------------------
(* Out-of-service keywords, missing date columns *)

\* C27 as stated: a raw status whose text is exactly one of the
\* out-of-service keywords "hors service", "panne", "indisponible" is
\* normalised to hors_service.
C27_Original ==
    HasCol(df_clean, "statut_normalise") =>
        \A l \in Labels(df_clean) :
            LET raw == RowOf(df_raw, l)[StatutSource(df_raw)] IN
            (raw.k = "str" /\ raw.s \in OutOfServiceKeywords) =>
                RowOf(df_clean, l)["statut_normalise"] = "hors_service"

\* the date columns the raw table lacks
MissingDates == {c \in SeqRange(date_cols) : ~HasCol(df_raw, c)}

\* C28 as stated: when the raw table lacks a date column, the date step
\* warns about every missing column and the run goes on to the postal-code
\* extraction instead of ending there.
C28_Original ==
    [][(pc = "dates" /\ MissingDates # {}) =>
          (warned' = MissingDates /\ pc' = "postal")]_vars

----------------------------------------------------------------------------
(* Cached loads *)

\* a call of a load_data has just returned a table
LoadStep == loaded' # loaded /\ loaded'.raised = ""

\* C25 as stated: once the path has been loaded in the session, every later
\* load of it returns the table of the first load without reading the file,
\* also when the processing page has rewritten the file in between.
C25_Original ==
    [][(LoadStep /\ loaded.first # NoFile) =>
          (loaded'.table = loaded.first /\ ~loaded'.read)]_vars

\* C25 amended: the cache is kept per loading function and file path. A
\* call of a load_data that already holds a table for the path returns that
\* table without reading the file, also when the processing page has
\* rewritten the file in between; nothing but the first successful load of
\* the function fills its entry; a call of the other page's load_data that
\* holds no table yet reads the file as it is at that moment.
C25_PerLoader ==
    [][/\ \A l \in Loaders : cache[l] # NoFile => cache'[l] = cache[l]
       /\ LoadStep =>
             IF cache[loaded'.by] # NoFile
             THEN loaded'.table = cache[loaded'.by] /\ ~loaded'.read
             ELSE /\ loaded'.read
                  /\ loaded'.table = load_data(csv_file)
                  /\ cache'[loaded'.by] = loaded'.table]_vars

\* C25 witness: after the processing page has rewritten the file, the
\* overview loader has returned its table of the old file without reading,
\* while the deep-dives loader holds the table of the new file
C25_Witness ==
    /\ pc = "done"
    /\ csv_file = Written(df_clean)
    /\ loaded.by = "overview.load_data"
    /\ ~loaded.read
    /\ loaded.table = load_data(OldFile)
    /\ cache["overview.load_data"] = load_data(OldFile)
    /\ cache["deep_dives.load_data"] = load_data(csv_file)
    /\ load_data(csv_file) # load_data(OldFile)

====
